---- MODULE Spec2Model ----
(***************************************************************************)
(* torchhydro/datasets/data_sets.py: BaseDataset and its three subclasses  *)
(* (BasinSingleFlowDataset, BasinFlowDataset, KuaiDataset) as a state      *)
(* machine: construction (__init__, _load_data, kill_nan,                  *)
(* _create_lookup_table), then any sequence of __len__ and __getitem__.    *)
(*                                                                         *)
(* The data source, wrap_t_s_dict and ScalerHub are external: what they    *)
(* return is an input, held in the variable `source`.  One dynamic and one *)
(* target variable are carried per basin; static attributes are a vector   *)
(* of 0..MaxAttr values per basin.                                         *)
(***************************************************************************)
EXTENDS Integers, Sequences, FiniteSets, TLC

VARIABLES
    cls,            \* which class is being instantiated
    loader_type,    \* the loader_type argument of __init__
    data_params,    \* the data_params argument of __init__ (self.data_params)
    source,         \* what wrap_t_s_dict / ScalerHub will return
    pc,             \* position of the program
    calls,          \* external calls made so far, in order
    err,            \* exception that ended the last operation, or None
    t_s_dict,       \* self.t_s_dict
    x, y, c,        \* self.x, self.y, self.c
    train_mode,     \* self.train_mode
    rho,            \* self.rho
    warmup_length,  \* self.warmup_length
    lookup_table,   \* self.lookup_table
    num_samples,    \* self.num_samples
    batch_size,     \* local variable batch_size of KuaiDataset.__len__
    ret,            \* what the last completed __len__ / __getitem__ returned
    last_len        \* value the most recent successful __len__ returned

vars == <<cls, loader_type, data_params, source, pc, calls, err, t_s_dict,
          x, y, c, train_mode, rho, warmup_length, lookup_table, num_samples,
          batch_size, ret, last_len>>

stored == <<cls, loader_type, data_params, source, t_s_dict, x, y, c,
            train_mode, rho, warmup_length, lookup_table, num_samples>>

----------------------------------------------------------------------------
(* Bounds of the model *)

MaxBasins == 2
MaxT == 4
MaxRho == 3
MaxWarmup == 1
MaxAttr == 1
\* the series with gaps: days, attributes, and missing cells per stream
GapT == 3
GapAttr == 3
MaxGaps == 2

BatchSizes == {1, 2, 10}

None == "None"

\* an array element: a number, or NaN
Num(v) == [nan |-> FALSE, v |-> v]
NaN == [nan |-> TRUE, v |-> 0]

Classes == {"BaseDataset", "BasinSingleFlowDataset", "BasinFlowDataset", "KuaiDataset"}
LoaderTypes == {"train", "valid", "test", "bogus"}

Max(a, b) == IF a >= b THEN a ELSE b
Min(a, b) == IF a <= b THEN a ELSE b

RECURSIVE Gcd(_, _)
Gcd(a, b) == IF b = 0 THEN a ELSE Gcd(b, a % b)

RECURSIVE LcmUpTo(_)
LcmUpTo(n) == IF n <= 1 THEN 1 ELSE (LcmUpTo(n - 1) * n) \div Gcd(LcmUpTo(n - 1), n)

\* Input values are multiples of Scale, so that every linear interpolation and
\* every cross-basin mean the fill policies compute is itself an integer.
Scale == LcmUpTo(Max(Max(MaxT, GapT), MaxBasins))

\* orderings of the basin ids 1..n: ascending and descending
Orderings(n) == {[i \in 1..n |-> i], [i \in 1..n |-> n + 1 - i]}

SetOf(s) == {s[i] : i \in DOMAIN s}

Pos(s, e) == CHOOSE i \in DOMAIN s : s[i] = e

----------------------------------------------------------------------------
(* numpy datetime64 / timedelta64.  xarray keeps its time coordinate as    *)
(* datetime64[ns]; a timestamp is modelled as day + ns nanoseconds, with   *)
(* |ns| far below one day, so that comparison is lexicographic.            *)

Date(f) == [day |-> f, ns |-> 0]

\* np.timedelta64(n) without a unit is a generic timedelta; in arithmetic
\* with a datetime64[ns] it takes the datetime's unit.  np.timedelta64(n, "D")
\* is n days.
Timedelta(n, unit) == [n |-> n, unit |-> unit]

DtAdd(t, td) ==
    IF td.unit = "D" THEN [day |-> t.day + td.n, ns |-> t.ns]
    ELSE [day |-> t.day, ns |-> t.ns + td.n]

DtSub(t, td) == DtAdd(t, Timedelta(0 - td.n, td.unit))

DtLeq(a, b) == a.day < b.day \/ (a.day = b.day /\ a.ns <= b.ns)

DtLt(a, b) == DtLeq(a, b) /\ a # b

\* dates = self.y["time"].to_numpy(): nt consecutive days
Dates(nt) == [f \in 0..(nt - 1) |-> Date(f)]

RECURSIVE SeqOfSet(_)
SeqOfSet(S) ==
    IF S = {} THEN <<>>
    ELSE LET m == CHOOSE m \in S : \A o \in S : m <= o
         IN <<m>> \o SeqOfSet(S \ {m})

\* DataArray.sel(time=slice(lo, hi)): label-based, both ends inclusive; the
\* offsets selected, ascending
SelTime(dates, lo, hi) ==
    SeqOfSet({f \in DOMAIN dates : DtLeq(lo, dates[f]) /\ DtLeq(dates[f], hi)})

----------------------------------------------------------------------------
(* _fill_gaps_da.  A series is a function from time offsets (or basins) to *)
(* Num(v) or NaN.                                                         *)

Known(s) == {f \in DOMAIN s : ~s[f].nan}

SetMax(S) == CHOOSE m \in S : \A o \in S : o <= m
SetMin(S) == CHOOSE m \in S : \A o \in S : m <= o

\* the straight line through (a, s[a]) and (b, s[b]), read at f
Line(s, a, b, f) == Num(s[a].v + ((s[b].v - s[a].v) * (f - a)) \div (b - a))

\* interpolate_na without fill_value="extrapolate": gaps before the first and
\* after the last known point stay
InterpolateNaInterior(s) ==
    LET K == Known(s)
    IN IF Cardinality(K) = Cardinality(DOMAIN s) \/ Cardinality(K) <= 1 THEN s
       ELSE [f \in DOMAIN s |->
               IF ~s[f].nan THEN s[f]
               ELSE LET below == {k \in K : k < f}
                        above == {k \in K : k > f}
                    IN IF below # {} /\ above # {}
                         THEN Line(s, SetMax(below), SetMin(above), f)
                       ELSE NaN]

\* DataArray.interpolate_na(dim="time", fill_value="extrapolate") on one
\* series: linear between the neighbouring known points, the end segments
\* continued beyond the first and last known point; a series with no gap, or
\* with fewer than two known points, is returned as it is.
InterpolateNa(s) ==
    LET K == Known(s)
    IN IF Cardinality(K) = Cardinality(DOMAIN s) \/ Cardinality(K) <= 1 THEN s
       ELSE [f \in DOMAIN s |->
               IF ~s[f].nan THEN s[f]
               ELSE LET below == {k \in K : k < f}
                        above == {k \in K : k > f}
                    IN IF below # {} /\ above # {}
                         THEN Line(s, SetMax(below), SetMin(above), f)
                       ELSE IF above = {}
                         THEN Line(s, SetMax(K \ {SetMax(K)}), SetMax(K), f)
                       ELSE Line(s, SetMin(K), SetMin(K \ {SetMin(K)}), f)]

\* fill_nan == "interpolate": each basin's series on its own
FillInterpolate(da) == [b \in DOMAIN da |-> InterpolateNa(da[b])]

RECURSIVE SumOver(_, _)
SumOver(S, col) ==
    IF S = {} THEN 0
    ELSE LET e == CHOOSE e \in S : TRUE IN col[e].v + SumOver(S \ {e}, col)

\* var_data.mean(dim="basin") skips NaN; it is NaN where every basin is NaN
MeanOverBasins(col) ==
    LET K == Known(col)
    IN IF K = {} THEN NaN ELSE Num(SumOver(K, col) \div Cardinality(K))

\* fill_nan == "mean": per attribute, the mean over the basins replaces NaN
FillMean(da) ==
    [b \in DOMAIN da |->
        [a \in DOMAIN da[b] |->
            IF ~da[b][a].nan THEN da[b][a]
            ELSE MeanOverBasins([bb \in DOMAIN da |-> da[bb][a]])]]

\* _fill_gaps_da(da, fill_nan) for the two policies kill_nan uses
FillGapsDa(da, fill_nan) ==
    IF fill_nan = None THEN da
    ELSE IF fill_nan = "mean" THEN FillMean(da)
    ELSE FillInterpolate(da)

\* kill_nan(x, c, y): returns <<x, y, c>>
KillNanResult(dp, sx, sc, sy) ==
    [x |-> IF dp.relevant_rm_nan THEN FillGapsDa(sx, "interpolate") ELSE sx,
     y |-> IF dp.target_rm_nan THEN FillGapsDa(sy, "interpolate") ELSE sy,
     c |-> IF dp.constant_rm_nan THEN FillGapsDa(sc, "mean") ELSE sc]

----------------------------------------------------------------------------
(* _create_lookup_table *)

\* the generator with the bound one too low
AnchorOffsetsShort(w, time_length, r) ==
    {f \in w..(time_length - 1) : f < time_length - r}

\* the generator of one basin: f in range(warmup_length, time_length) if
\* f < time_length - rho + 1
AnchorOffsets(w, time_length, r) ==
    {f \in w..(time_length - 1) : f < time_length - r + 1}

BasinEntries(basin, dates, w, r) ==
    LET offs == SeqOfSet(AnchorOffsets(w, Cardinality(DOMAIN dates), r))
    IN [k \in 1..Len(offs) |-> [basin |-> basin, time |-> dates[offs[k]]]]

\* the enumeration with the two loops exchanged: time-major, then basin
LookupListTimeMajor(basins, n, dates, w, r) ==
    LET offs == SeqOfSet(AnchorOffsets(w, Cardinality(DOMAIN dates), r))
        m == Len(offs) * n
    IN [k \in 1..m |-> [basin |-> basins[((k - 1) % n) + 1],
                        time |-> dates[offs[((k - 1) \div n) + 1]]]]

\* lookup after the loop over basins[1..n]
RECURSIVE LookupList(_, _, _, _, _)
LookupList(basins, n, dates, w, r) ==
    IF n = 0 THEN <<>>
    ELSE LookupList(basins, n - 1, dates, w, r) \o BasinEntries(basins[n], dates, w, r)

\* dict(enumerate(lookup))
Enumerate(lookup) == [i \in 0..(Len(lookup) - 1) |-> lookup[i + 1]]

CreateLookupTable(basins, dates, w, r) ==
    Enumerate(LookupList(basins, Len(basins), dates, w, r))

----------------------------------------------------------------------------
(* What the external collaborators return *)

XVal(b, f) == Num(Scale * (100 * b + f * f))
YVal(b, f) == Num(Scale * (100 * b + 50 + f * f))
CVal(b, a) == Num(Scale * (10 * b + 3 * a * a))

\* x, y, c of ScalerHub for the basins `sites` over nt days with nattr
\* attributes; gx, gy (sets of <<basin, offset>>) and gc (a set of
\* <<basin, attribute>>) are the missing cells
SourceData(sites, nt, nattr, gx, gy, gc) ==
    [sites_id |-> sites,
     x |-> [b \in SetOf(sites) |-> [f \in 0..(nt - 1) |->
              IF <<b, f>> \in gx THEN NaN ELSE XVal(b, f)]],
     y |-> [b \in SetOf(sites) |-> [f \in 0..(nt - 1) |->
              IF <<b, f>> \in gy THEN NaN ELSE YVal(b, f)]],
     c |-> [b \in SetOf(sites) |-> [a \in 1..nattr |->
              IF <<b, a>> \in gc THEN NaN ELSE CVal(b, a)]]]

SmallSubsets(S) == {G \in SUBSET S : Cardinality(G) <= MaxGaps}

\* self.y["time"] (x has the same time coordinate)
TimeCoord(da) == Dates(Cardinality(DOMAIN da[CHOOSE b \in DOMAIN da : TRUE]))

NoRet == [op |-> "none", item |-> 0, val |-> 0, x |-> <<>>, y |-> <<>>]

NotBuilt ==
    /\ pc = "new"
    /\ calls = <<>>
    /\ err = None
    /\ t_s_dict = [sites_id |-> <<>>]
    /\ x = <<>> /\ y = <<>> /\ c = <<>>
    /\ train_mode = FALSE
    /\ rho = 0
    /\ warmup_length = 0
    /\ lookup_table = <<>>
    /\ num_samples = 0
    /\ batch_size = 0
    /\ ret = NoRet
    /\ last_len = -1

\* complete series, any configuration
Init ==
    /\ cls \in Classes
    /\ loader_type \in LoaderTypes
    /\ \E fh \in 1..MaxRho, w \in 0..MaxWarmup, bs \in BatchSizes :
         data_params = [forecast_history |-> fh, warmup_length |-> w,
                        batch_size |-> bs, target_rm_nan |-> TRUE,
                        relevant_rm_nan |-> TRUE, constant_rm_nan |-> TRUE]
    /\ \E n \in 1..MaxBasins, nt \in 1..MaxT, nattr \in 0..MaxAttr :
         \E sites \in Orderings(n) :
            source = SourceData(sites, nt, nattr, {}, {}, {})
    /\ NotBuilt

\* two basins whose series have gaps in one of the three streams, any fill
\* options
InitGaps ==
    /\ cls \in Classes
    /\ loader_type \in {"train", "valid"}
    /\ \E rx \in BOOLEAN, ry \in BOOLEAN, rc \in BOOLEAN :
         data_params = [forecast_history |-> 2, warmup_length |-> 1,
                        batch_size |-> 10, target_rm_nan |-> ry,
                        relevant_rm_nan |-> rx, constant_rm_nan |-> rc]
    /\ \E stream \in {"x", "y", "c"} :
         \E G \in SmallSubsets((1..2) \X (IF stream = "c" THEN 1..GapAttr
                                                           ELSE 0..(GapT - 1))) :
            source = SourceData(<<1, 2>>, GapT, GapAttr,
                                IF stream = "x" THEN G ELSE {},
                                IF stream = "y" THEN G ELSE {},
                                IF stream = "c" THEN G ELSE {})
    /\ NotBuilt

----------------------------------------------------------------------------
(* Construction: BaseDataset.__init__ and _load_data *)

AnyLoaderType(lt) == TRUE

\* loader_type in {"train", "valid", "test"}
ValidLoaderType(lt) == lt \in {"train", "valid", "test"}

\* __init__ up to the call of _load_data
InitDataset ==
    /\ pc = "new"
    /\ IF ValidLoaderType(loader_type)
         THEN pc' = "load" /\ err' = None
         ELSE pc' = "raised" /\ err' = "ValueError"
    /\ UNCHANGED <<stored, calls, batch_size, ret, last_len>>

\* _load_data: wrap_t_s_dict, the three reads of the data source, read_area
ReadData ==
    /\ pc = "load"
    /\ t_s_dict' = [sites_id |-> source.sites_id]
    /\ calls' = calls \o <<"wrap_t_s_dict", "read_ts_xrdataset", "read_ts_xrdataset",
                           "read_attr_xrdataset", "read_area">>
    /\ pc' = "scale"
    /\ UNCHANGED <<cls, loader_type, data_params, source, x, y, c, train_mode, rho,
                   warmup_length, lookup_table, num_samples, err, batch_size, ret,
                   last_len>>

\* _load_data: normalization by ScalerHub
Normalize ==
    /\ pc = "scale"
    /\ calls' = calls \o <<"ScalerHub">>
    /\ pc' = "kill_nan"
    /\ UNCHANGED <<stored, err, batch_size, ret, last_len>>

\* _load_data: self.x, self.y, self.c = self.kill_nan(scaler_hub.x, scaler_hub.c, scaler_hub.y)
KillNan ==
    /\ pc = "kill_nan"
    /\ LET r == KillNanResult(data_params, source.x, source.c, source.y)
       IN x' = r.x /\ y' = r.y /\ c' = r.c
    /\ pc' = "lookup"
    /\ UNCHANGED <<cls, loader_type, data_params, source, t_s_dict, train_mode, rho,
                   warmup_length, lookup_table, num_samples, calls, err, batch_size,
                   ret, last_len>>

\* _load_data: the remaining assignments and _create_lookup_table
CreateLookup ==
    /\ pc = "lookup"
    /\ train_mode' = (loader_type = "train")
    /\ rho' = data_params.forecast_history
    /\ warmup_length' = data_params.warmup_length
    /\ lookup_table' = CreateLookupTable(t_s_dict.sites_id, TimeCoord(y),
                                         data_params.warmup_length,
                                         data_params.forecast_history)
    /\ num_samples' = Cardinality(DOMAIN lookup_table')
    /\ pc' = "ready"
    /\ UNCHANGED <<cls, loader_type, data_params, source, t_s_dict, x, y, c, calls,
                   err, batch_size, ret, last_len>>

----------------------------------------------------------------------------
(* __getitem__ *)

Raised(e) == [err |-> e, x |-> <<>>, y |-> <<>>]
Returned(xw, yw) == [err |-> None, x |-> xw, y |-> yw]

\* np.tile(c, (seq_length, 1))
Tile(cvec, n) == [k \in 1..n |-> cvec]

\* np.concatenate((x, c), axis=1) needs as many rows in c as in x
Concatenate(xrows, crows) == [k \in 1..Len(xrows) |-> xrows[k] \o crows[k]]

\* time - np.timedelta64(warmup_length)
WindowStart(time, w) == DtSub(time, Timedelta(w, "generic"))

\* BaseDataset.__getitem__
BaseGetItem(item) ==
    IF item \notin DOMAIN lookup_table THEN Raised("KeyError")
    ELSE LET basin == lookup_table[item].basin
             time == lookup_table[item].time
             seq_length == rho
             dates == TimeCoord(y)
             xs == SelTime(dates, WindowStart(time, warmup_length),
                           DtAdd(time, Timedelta(seq_length - 1, "D")))
             xrows == [k \in 1..Len(xs) |-> <<x[basin][xs[k]]>>]
             ys == SelTime(dates, time, DtAdd(time, Timedelta(seq_length - 1, "D")))
             yrows == [k \in 1..Len(ys) |-> <<y[basin][ys[k]]>>]
         IN IF Len(c[basin]) > 0
              THEN IF Len(xrows) # seq_length THEN Raised("ValueError")
                   ELSE Returned(Concatenate(xrows, Tile(c[basin], seq_length)), yrows)
              ELSE Returned(xrows, yrows)

\* BasinSingleFlowDataset.__getitem__: y = ys[-1, :]
SingleGetItem(index) ==
    LET r == BaseGetItem(index)
    IN IF r.err # None THEN r
       ELSE IF Len(r.y) = 0 THEN Raised("IndexError")
       ELSE Returned(r.x, r.y[Len(r.y)])

\* a position in a Python sequence of n elements, negative ones counted from
\* the end; 0 when out of range, else the 1-based position
PyIndex(index, n) ==
    IF index >= 0 /\ index < n THEN index + 1
    ELSE IF index < 0 /\ index >= 0 - n THEN n + index + 1
    ELSE 0

\* the evaluation branch of BasinFlowDataset.__getitem__ and
\* KuaiDataset.__getitem__: the whole series of the basin at position index
EvalGetItem(index) ==
    LET sites == t_s_dict.sites_id
        p == PyIndex(index, Len(sites))
    IN IF p = 0 THEN Raised("IndexError")
       ELSE LET basin == sites[p]
                dates == TimeCoord(y)
                nt == Cardinality(DOMAIN dates)
                xrows == [k \in 1..nt |-> <<x[basin][k - 1]>>]
                yrows == [k \in 1..nt |-> <<y[basin][k - 1]>>]
            IN IF Len(c[basin]) = 0 THEN Returned(xrows, yrows)
               ELSE Returned(Concatenate(xrows, Tile(c[basin], nt)), yrows)

GetItemResult(index) ==
    IF cls = "BaseDataset" THEN BaseGetItem(index)
    ELSE IF cls = "BasinSingleFlowDataset" THEN SingleGetItem(index)
    ELSE IF train_mode THEN BaseGetItem(index)
    ELSE EvalGetItem(index)

\* the ids tried: every id of the table and of the basin list, and some
\* outside on either side
Indices == (0 - Len(t_s_dict.sites_id) - 1)..Max(num_samples, Len(t_s_dict.sites_id))

GetItem ==
    /\ pc = "ready"
    /\ \E index \in Indices :
         LET r == GetItemResult(index)
         IN /\ ret' = [op |-> "getitem", item |-> index, val |-> 0, x |-> r.x, y |-> r.y]
            /\ err' = r.err
    /\ UNCHANGED <<stored, pc, calls, batch_size, last_len>>

----------------------------------------------------------------------------
(* __len__ *)

\* BasinFlowDataset.__len__ ignoring the mode
BasinFlowLenAlways == num_samples

\* BasinFlowDataset.__len__
BasinFlowLen == IF train_mode THEN num_samples ELSE Len(t_s_dict.sites_id)

\* __len__ of every class but KuaiDataset in training mode
LenValue ==
    IF cls = "BasinFlowDataset" THEN BasinFlowLen
    ELSE IF cls = "KuaiDataset" THEN Len(t_s_dict.sites_id)
    ELSE num_samples

KuaiTraining == cls = "KuaiDataset" /\ train_mode

Len_ ==
    /\ pc = "ready"
    /\ ~KuaiTraining
    /\ ret' = [op |-> "len", item |-> 0, val |-> LenValue, x |-> <<>>, y |-> <<>>]
    /\ last_len' = LenValue
    /\ err' = None
    /\ UNCHANGED <<stored, pc, calls, batch_size>>

\* self.y.basin.shape[0], self.y.time.shape[0]
Ngrid == Cardinality(DOMAIN y)
Nt == Cardinality(DOMAIN TimeCoord(y))

\* KuaiDataset.__len__, training mode: batch_size = self.data_params["batch_size"]
KuaiLenEnter ==
    /\ pc = "ready"
    /\ KuaiTraining
    /\ batch_size' = data_params.batch_size
    /\ pc' = "len_loop"
    /\ UNCHANGED <<stored, calls, err, ret, last_len>>

\* while batch_size * rho >= ngrid * nt
LoopCondition == batch_size * rho >= Ngrid * Nt

\* the loop body writing the smaller batch size back to the configuration
KuaiLenShrinkWriteBack ==
    /\ pc = "len_loop"
    /\ LoopCondition
    /\ batch_size' = batch_size \div 10
    /\ data_params' = [data_params EXCEPT !.batch_size = batch_size \div 10]
    /\ UNCHANGED <<cls, loader_type, source, t_s_dict, x, y, c, train_mode, rho,
                   warmup_length, lookup_table, num_samples, pc, calls, err, ret,
                   last_len>>

\* the loop body: batch_size = int(batch_size / 10)
KuaiLenShrink ==
    /\ pc = "len_loop"
    /\ LoopCondition
    /\ batch_size' = batch_size \div 10
    /\ UNCHANGED <<stored, pc, calls, err, ret, last_len>>

NoClamp(b) == b

\* max(batch_size, 1)
Clamp(b) == Max(b, 1)

\* the loop's exit and batch_size = max(batch_size, 1)
KuaiLenClamp ==
    /\ pc = "len_loop"
    /\ ~LoopCondition
    /\ batch_size' = Clamp(batch_size)
    /\ pc' = "len_iter"
    /\ UNCHANGED <<stored, calls, err, ret, last_len>>

\* fixed-point unit of the coverage computation
PScale == 10 ^ 7

\* ceil(ln(0.01) / ln(1 - N/D)) for 0 < N < D: the least n with
\* (1 - N/D)^n <= 0.01.  hi is (1 - N/D)^n in units of 1/PScale, rounded up
\* at every step.
RECURSIVE NIterFrom(_, _, _, _)
NIterFrom(n, hi, N, D) ==
    IF hi * 100 <= PScale THEN n
    ELSE NIterFrom(n + 1, (hi * (D - N) + D - 1) \div D, N, D)

NIter(N, D) == NIterFrom(0, PScale, N, D)

\* n_iter_ep = int(np.ceil(np.log(0.01) / np.log(1 - batch_size * rho / ngrid /
\* (nt - warmup_length)))); assert n_iter_ep >= 1; return n_iter_ep * batch_size
KuaiLenOutcome(b, r, w, ngrid, nt) ==
    LET N == b * r
        D == ngrid * (nt - w)
    IN IF nt - w = 0 THEN [err |-> "ZeroDivisionError", val |-> 0]
       ELSE IF D < 0 \/ N = D \/ N = 0 THEN [err |-> "AssertionError", val |-> 0]
       ELSE IF N > D THEN [err |-> "ValueError", val |-> 0]
       ELSE [err |-> None, val |-> NIter(N, D) * b]

KuaiLenReturn ==
    /\ pc = "len_iter"
    /\ LET o == KuaiLenOutcome(batch_size, rho, data_params.warmup_length, Ngrid, Nt)
       IN /\ err' = o.err
          /\ ret' = [op |-> "len", item |-> 0, val |-> o.val, x |-> <<>>, y |-> <<>>]
          /\ last_len' = IF o.err = None THEN o.val ELSE last_len
    /\ batch_size' = 0
    /\ pc' = "ready"
    /\ UNCHANGED <<stored, calls>>

----------------------------------------------------------------------------

Next ==
    \/ InitDataset
    \/ ReadData
    \/ Normalize
    \/ KillNan
    \/ CreateLookup
    \/ GetItem
    \/ Len_
    \/ KuaiLenEnter
    \/ KuaiLenShrink
    \/ KuaiLenClamp
    \/ KuaiLenReturn

Spec == Init /\ [][Next]_vars

SpecGaps == InitGaps /\ [][Next]_vars

----------------------------------------------------------------------------
(* Properties *)

\* construction has completed
Built == pc \in {"ready", "len_loop", "len_iter"}

Sites == t_s_dict.sites_id

Entries == {lookup_table[i] : i \in DOMAIN lookup_table}

ValidOffset(f) == warmup_length <= f /\ f < Nt - rho + 1

\* C1: once the dataset is built, the lookup table holds (b, timestamps[f])
\* for a configured basin b and an offset f of the time axis exactly when
\* warmup_length <= f < time_length - rho + 1 (hence f + rho <= time_length),
\* it holds nothing else and nothing twice, and num_samples, which the base
\* __len__ returns, is the number of such pairs.
LookupTableExact ==
    Built =>
        /\ \A b \in SetOf(Sites), f \in 0..(Nt - 1) :
              ([basin |-> b, time |-> Date(f)] \in Entries) <=> ValidOffset(f)
        /\ \A e \in Entries :
              /\ e.basin \in SetOf(Sites)
              /\ \E f \in 0..(Nt - 1) : e.time = Date(f) /\ f + rho <= Nt
        /\ \A i, j \in DOMAIN lookup_table :
              i # j => lookup_table[i] # lookup_table[j]
        /\ num_samples = Cardinality(DOMAIN lookup_table)
        /\ num_samples =
              Cardinality({p \in SetOf(Sites) \X (0..(Nt - 1)) : ValidOffset(p[2])})
        /\ (ret.op = "len" /\ cls \in {"BaseDataset", "BasinSingleFlowDataset"})
              => ret.val = num_samples

\* C1 witness: the base __len__ has returned for two basins with a warmup
\* period and a horizon that both cut offsets off the table
LookupTableExactWitness ==
    /\ pc = "ready"
    /\ cls = "BaseDataset"
    /\ ret.op = "len"
    /\ Len(Sites) = 2
    /\ warmup_length = 1
    /\ rho = 2
    /\ num_samples = 4

\* C3: the ids of the table are 0..size-1 in basin-major, time-ascending
\* order: the id i * m + k (m entries per basin) is basin i's k-th anchor, so
\* for ids i < j either basin(i) comes before basin(j) in the configured
\* order or the basins agree and anchor(i) is earlier; id 0 is
\* (basins[0], timestamps[warmup_length]); the table is a function of the
\* basins, the timestamps, warmup_length and rho alone.
LookupOrder ==
    Built =>
        LET m == Max(0, Min(Nt, Nt - rho + 1) - warmup_length)
        IN /\ DOMAIN lookup_table = 0..(Len(Sites) * m - 1)
           /\ \A i \in DOMAIN lookup_table :
                 lookup_table[i] = [basin |-> Sites[(i \div m) + 1],
                                    time |-> Date(warmup_length + (i % m))]
           /\ \A i, j \in DOMAIN lookup_table :
                 i < j =>
                    \/ Pos(Sites, lookup_table[i].basin) < Pos(Sites, lookup_table[j].basin)
                    \/ /\ lookup_table[i].basin = lookup_table[j].basin
                       /\ DtLt(lookup_table[i].time, lookup_table[j].time)
           /\ lookup_table # <<>> =>
                 lookup_table[0] = [basin |-> Sites[1], time |-> Date(warmup_length)]

\* C3 witness: a table of two basins, configured in descending id order, with
\* several anchors each
LookupOrderWitness ==
    /\ Built
    /\ Sites = <<2, 1>>
    /\ warmup_length = 1
    /\ num_samples = 6

\* C4: with a loader_type outside {train, valid, test} construction ends in
\* a ValueError and no external call (data source, scaler) is ever made;
\* whenever an external call has been made, the loader_type check has passed.
ValidationFirst ==
    /\ loader_type \notin {"train", "valid", "test"} =>
          /\ calls = <<>>
          /\ pc \in {"new", "raised"}
          /\ pc = "raised" => err = "ValueError"
    /\ calls # <<>> => (loader_type \in {"train", "valid", "test"} /\ pc # "new")

\* C4 witness: construction with loader_type "bogus" has failed
ValidationFirstWitness ==
    /\ loader_type = "bogus"
    /\ pc = "raised"
    /\ err = "ValueError"
    /\ calls = <<>>

\* C5 as stated: in KuaiDataset.__len__ (training mode) the working
\* batch_size is >= 1 after every shrink step and when the n_iter formula
\* uses it.
BatchSizeNeverBelowOne ==
    pc \in {"len_loop", "len_iter"} => batch_size >= 1

\* C5 amended: the working batch_size is >= 1 when the n_iter formula uses it,
\* and a length that is returned is >= 1 (inside the loop it may be 0).
BatchSizeClamped ==
    /\ pc = "len_iter" => batch_size >= 1
    /\ (KuaiTraining /\ ret.op = "len" /\ err = None) => ret.val >= 1

\* C5 witness: the formula is reached with batch size 1 from a configured
\* batch size 2, that is through 0 and the clamp
BatchSizeClampedWitness ==
    /\ pc = "len_iter"
    /\ data_params.batch_size = 2
    /\ batch_size = 1

\* C6: __len__ of BasinFlowDataset is the size of the lookup table when
\* loader_type is train and the number of configured basins otherwise;
\* __len__ of KuaiDataset outside training is the number of basins.
ModeLength ==
    (ret.op = "len" /\ err = None) =>
        /\ cls = "BasinFlowDataset" =>
              ret.val = IF loader_type = "train"
                          THEN Cardinality(DOMAIN lookup_table)
                          ELSE Len(Sites)
        /\ (cls = "KuaiDataset" /\ loader_type # "train") => ret.val = Len(Sites)

\* C6 witness: BasinFlowDataset in evaluation mode has returned its length
\* while the table has another size
ModeLengthWitness ==
    /\ cls = "BasinFlowDataset"
    /\ loader_type = "valid"
    /\ ret.op = "len"
    /\ ret.val = 2
    /\ num_samples = 6

\* C7: once the dataset is built, no step of __len__ or __getitem__ changes
\* the stored arrays, the lookup table, num_samples or the configuration
\* (batch_size included); a __len__ that returns after an earlier one returns
\* the same value, and __getitem__ called again with the same id returns the
\* same window.
OpsLeaveDatasetUnchanged ==
    [][Built =>
         /\ UNCHANGED stored
         /\ (last_len >= 0 => last_len' = last_len)
         /\ (ret'.op = "len" /\ err' = None) => ret'.val = last_len'
         /\ (ret.op = "getitem" /\ ret'.op = "getitem" /\ ret'.item = ret.item)
               => (ret' = ret /\ err' = err)]_vars

\* C7 witness: KuaiDataset in training mode, whose configured batch size
\* makes __len__ shrink, has returned a length and then a sample
OpsLeaveDatasetUnchangedWitness ==
    /\ pc = "ready"
    /\ KuaiTraining
    /\ data_params.batch_size * rho >= Ngrid * Nt
    /\ last_len >= 1
    /\ ret.op = "getitem"
    /\ err = None

\* the parts of a returned window
Sampled == pc = "ready" /\ ret.op = "getitem" /\ err = None
XPart == {ret.x[k][1] : k \in DOMAIN ret.x}
CPart == UNION {{ret.x[k][j] : j \in 2..Len(ret.x[k])} : k \in DOMAIN ret.x}
YPart ==
    IF cls = "BasinSingleFlowDataset" THEN {ret.y[j] : j \in DOMAIN ret.y}
    ELSE {ret.y[k][1] : k \in DOMAIN ret.y}

NoNaN(S) == \A v \in S : ~v.nan

\* the gaps cover under half of each basin's series
GapsUnderHalf(da) ==
    \A b \in DOMAIN da : 2 * Cardinality(DOMAIN da[b] \ Known(da[b])) < Cardinality(DOMAIN da[b])

\* every attribute is known for at least one basin
KnownSomewhere(da) ==
    \A b \in DOMAIN da : \A a \in DOMAIN da[b] : \E bb \in DOMAIN da : ~da[bb][a].nan

\* a stream whose option is off is stored as the scaler returned it
DisabledUntouched ==
    Built =>
        /\ ~data_params.relevant_rm_nan => x = source.x
        /\ ~data_params.target_rm_nan => y = source.y
        /\ ~data_params.constant_rm_nan => c = source.c

\* C8 as stated: a returned window has no NaN in a stream whose rm_nan
\* option is on, given gaps under 50% of every basin's series in that stream;
\* a stream whose option is off is stored as the scaler returned it.
NoNaNWhenEnabled ==
    /\ DisabledUntouched
    /\ Sampled =>
          /\ (data_params.relevant_rm_nan /\ GapsUnderHalf(source.x)) => NoNaN(XPart)
          /\ (data_params.target_rm_nan /\ GapsUnderHalf(source.y)) => NoNaN(YPart)
          /\ (data_params.constant_rm_nan /\ GapsUnderHalf(source.c)) => NoNaN(CPart)

\* C8 amended: as stated for x and y; for the static attributes c, provided
\* also that every attribute is known for at least one basin.
NoNaNWhenFillable ==
    /\ DisabledUntouched
    /\ Sampled =>
          /\ (data_params.relevant_rm_nan /\ GapsUnderHalf(source.x)) => NoNaN(XPart)
          /\ (data_params.target_rm_nan /\ GapsUnderHalf(source.y)) => NoNaN(YPart)
          /\ (data_params.constant_rm_nan /\ GapsUnderHalf(source.c)
                /\ KnownSomewhere(source.c)) => NoNaN(CPart)

\* C8 witness: a window was returned for a basin whose dynamic series came
\* from the scaler with its last day missing, the fill option being on
NoNaNWhenFillableWitness ==
    /\ Sampled
    /\ cls = "BaseDataset"
    /\ data_params.relevant_rm_nan
    /\ GapsUnderHalf(source.x)
    /\ source.x[lookup_table[ret.item].basin][Nt - 1].nan
    /\ NoNaN(XPart)

\* C2 as stated: for an id of the table with anchor offset f, the base
\* __getitem__ returns as input the warmup_length + rho steps at offsets
\* f - warmup_length .. f + rho - 1 of the basin's dynamic series, each with
\* the basin's static attributes appended, and as target the rho steps at
\* offsets f .. f + rho - 1 of its target series.
WindowCoversWarmup ==
    (pc = "ready" /\ ret.op = "getitem" /\ cls = "BaseDataset"
        /\ ret.item \in DOMAIN lookup_table) =>
        LET b == lookup_table[ret.item].basin
            f == lookup_table[ret.item].time.day
        IN /\ err = None
           /\ ret.x = [k \in 1..(warmup_length + rho) |->
                         <<x[b][f - warmup_length + k - 1]>> \o c[b]]
           /\ ret.y = [k \in 1..rho |-> <<y[b][f + k - 1]>>]

\* C9 as stated: when the n_iter formula is evaluated (nt > warmup_length),
\* 0 < batch_size * rho < ngrid * (nt - warmup_length).
CoverageFractionProper ==
    (pc = "len_iter" /\ Nt > data_params.warmup_length) =>
        /\ 0 < batch_size * rho
        /\ batch_size * rho < Ngrid * (Nt - data_params.warmup_length)

\* C10 as stated: every id i with 0 <= i < length() is accepted by
\* __getitem__.
IdsBelowLengthAccepted ==
    (pc = "ready" /\ ret.op = "getitem" /\ last_len >= 0
        /\ 0 <= ret.item /\ ret.item < last_len) => err = None

====
